---- MODULE Spec2Model ----
(***************************************************************************)
(* Tezdhar chess engine: the bitboard attack oracle.                       *)
(*                                                                         *)
(* A bitboard (uint64_t) is modelled as the set of its set bit indices, a  *)
(* subset of 0..63; a 64-bit number that is multiplied (a magic, a         *)
(* product) is modelled as four 16-bit limbs, least significant first.     *)
(***************************************************************************)
EXTENDS Integers, Sequences, FiniteSets, TLC

VARIABLES
    build,              \* the branch of the HAVE_* cascade the build compiled
    bishop_magic_numbers, \* the compiled-in magics of the bishop, by index in SqList
    rook_magic_numbers, \* the compiled-in magics of the rook, by index in SqList
    pc,                 \* position of main()
    sqi,                \* loop counter of the running init loop (index in SqList)
    pawn_attacks_lut,   \* pawn.c   pawn_attacks_lut[2][64]
    king_attacks_lut,   \* king.c   king_attacks_lut[64]
    knight_attacks_lut, \* knight.c knight_attacks_lut[64]
    B_lut,              \* bishop.c B_lut[64]
    R_lut,              \* rook.c   R_lut[64]
    Battacks,           \* bishop.c Battacks[64][512]
    Rattacks,           \* rook.c   Rattacks[64][4096]
    try,                \* find_magic_number: try
    occupancies,        \* find_magic_number: occupancies[4096], the entries written
    attacks,            \* find_magic_number: attacks[4096], the entries written
    used_attacks,       \* find_magic_number: used_attacks[4096]
    use_pre_calc_magic, \* init_*_magic: the flag of the running call
    returned_false,     \* some call of init_bishop_magic / init_rook_magic returned false
    query,              \* the last attack query and its result
    fn,                 \* function harness: the function applied
    fsq,                \* function harness: square argument
    fblockers,          \* function harness: bitboard argument
    findex,             \* function harness: integer argument
    fmagic,             \* function harness: magic argument
    fresult,            \* function harness: returned bitboard
    fret                \* function harness: returned int or bool

vars == <<build, bishop_magic_numbers, rook_magic_numbers, pc, sqi,
          pawn_attacks_lut, king_attacks_lut, knight_attacks_lut,
          B_lut, R_lut, Battacks, Rattacks, try, occupancies, attacks, used_attacks,
          use_pre_calc_magic, returned_false, query, fn, fsq, fblockers, findex, fmagic, fresult, fret>>

\* what a build fixes
buildVars == <<build, bishop_magic_numbers, rook_magic_numbers>>

\* the state of the loader of the magic numbers
loaderVars == <<use_pre_calc_magic, returned_false>>

progVars == <<buildVars, pc, sqi, pawn_attacks_lut, king_attacks_lut,
              knight_attacks_lut, B_lut, R_lut, Battacks, Rattacks, try, occupancies,
              attacks, used_attacks, loaderVars, query>>

fnVars == <<fn, fsq, fblockers, findex, fmagic, fresult, fret>>

fnArgs == <<fsq, fblockers, findex, fmagic>>

-----------------------------------------------------------------------------
(* Bounds of the model *)

\* at most this many blockers are placed on the board of the function harness
MaxBlockers == 3

\* the slider tables are built and queried for the first NumSq squares of SqList
NumSq == 1

\* of the candidates find_magic_number draws for one square the model follows this
\* many: the first MaxTry - 1 and the one drawn with try = INT_MAX
MaxTry == 2

\* besides main()'s occupancy, occupancies of at most this many pieces are queried
MaxQueryPieces == 2

-----------------------------------------------------------------------------
(* chess.h: enumerations *)

WHITE == 0
BLACK == 1

KING == 0
BISHOP == 3
ROOK == 4

A_FILE == 0
B_FILE == 1
G_FILE == 6
H_FILE == 7

RANK_1 == 0
RANK_2 == 1
RANK_7 == 6
RANK_8 == 7

A1 == 0
B2 == 9
C2 == 10
E2 == 12
F2 == 13
E3 == 20
D4 == 27
E4 == 28
C5 == 34
G5 == 38
E7 == 52
G7 == 54
H8 == 63

Squares == A1..H8

\* the square with the algebraic name file f (a string "a" .. "h"), rank r (1 .. 8)
FileIndex == [a |-> 0, b |-> 1, c |-> 2, d |-> 3, e |-> 4, f |-> 5, g |-> 6, h |-> 7]

Coord(f, r) == (r - 1) * 8 + FileIndex[f]

-----------------------------------------------------------------------------
(* bitboard.h: bit manipulation on 64-bit words *)

AllBits == 0..63

\* (1ULL << sq)
BIT(sq) == {sq}

\* bb >> n on uint64_t
ShiftRight(bb, n) == {b - n : b \in {x \in bb : x >= n}}

\* bb << n on uint64_t: bits shifted past bit 63 are lost
ShiftLeft(bb, n) == {b + n : b \in {x \in bb : x + n <= 63}}

\* the set bits of a non-negative int
RECURSIVE IntBits(_, _)
IntBits(n, b) ==
    IF n = 0 THEN {}
    ELSE (IF n % 2 = 1 THEN {b} ELSE {}) \cup IntBits(n \div 2, b + 1)

\* ~e for an int e >= 0, converted to uint64_t by the & with a bitboard:
\* the int -e-1 sign-extends, so every bit that is clear in e is set
NotInt(e) == AllBits \ IntBits(e, 0)

\* SQR(rank, file): the bitboard of one square, square = rank * 8 + file
SQR(r, f) == BIT(r * 8 + f)

SHIFT_N(bb) == ShiftRight(bb, 8)
SHIFT_S(bb) == ShiftLeft(bb, 8)
SHIFT_W(bb) == ShiftRight(bb \cap NotInt(A_FILE), 1)
SHIFT_E(bb) == ShiftLeft(bb \cap NotInt(H_FILE), 1)
SHIFT_NE(bb) == ShiftRight(bb \cap NotInt(H_FILE), 7)
SHIFT_SW(bb) == ShiftLeft(bb \cap NotInt(A_FILE), 7)
SHIFT_NW(bb) == ShiftRight(bb \cap NotInt(A_FILE), 9)
SHIFT_SE(bb) == ShiftLeft(bb \cap NotInt(H_FILE), 9)

Directions == {"N", "S", "E", "W", "NE", "NW", "SE", "SW"}

\* the macro named by a direction
Shift(d, bb) ==
    CASE d = "N" -> SHIFT_N(bb)
      [] d = "S" -> SHIFT_S(bb)
      [] d = "E" -> SHIFT_E(bb)
      [] d = "W" -> SHIFT_W(bb)
      [] d = "NE" -> SHIFT_NE(bb)
      [] d = "NW" -> SHIFT_NW(bb)
      [] d = "SE" -> SHIFT_SE(bb)
      [] d = "SW" -> SHIFT_SW(bb)

-----------------------------------------------------------------------------
(* rook.c: occupancy mask and reference ray walk *)

\* for (r = r0; r <= last; r++) / (r >= last; r--): mask |= SQR(r, tf)
RECURSIVE RookMaskRanks(_, _, _, _, _)
RookMaskRanks(r, tf, step, last, mask) ==
    IF (step > 0 /\ r <= last) \/ (step < 0 /\ r >= last)
    THEN RookMaskRanks(r + step, tf, step, last, mask \cup SQR(r, tf))
    ELSE mask

\* for (f = f0; f <= last; f++) / (f >= last; f--): mask |= SQR(tr, f)
RECURSIVE RookMaskFiles(_, _, _, _, _)
RookMaskFiles(tr, f, step, last, mask) ==
    IF (step > 0 /\ f <= last) \/ (step < 0 /\ f >= last)
    THEN RookMaskFiles(tr, f + step, step, last, mask \cup SQR(tr, f))
    ELSE mask

\* rook_occu_mask without its North and South loops
rook_occu_mask_rank_only(sq) ==
    LET tr == sq \div 8
        tf == sq % 8
        east == RookMaskFiles(tr, tf + 1, 1, G_FILE, {})
    IN  RookMaskFiles(tr, tf - 1, -1, B_FILE, east)

\* rook_occu_mask with the loops run up to the board edge
rook_occu_mask_to_edge(sq) ==
    LET tr == sq \div 8
        tf == sq % 8
        north == RookMaskRanks(tr + 1, tf, 1, RANK_8, {})
        south == RookMaskRanks(tr - 1, tf, -1, RANK_1, north)
        east == RookMaskFiles(tr, tf + 1, 1, H_FILE, south)
    IN  RookMaskFiles(tr, tf - 1, -1, A_FILE, east)

rook_occu_mask(sq) ==
    LET tr == sq \div 8
        tf == sq % 8
        north == RookMaskRanks(tr + 1, tf, 1, RANK_7, {})
        south == RookMaskRanks(tr - 1, tf, -1, RANK_2, north)
        east == RookMaskFiles(tr, tf + 1, 1, G_FILE, south)
    IN  RookMaskFiles(tr, tf - 1, -1, B_FILE, east)

\* one ray loop along a file: add the square, break on a blocker
RECURSIVE RookAttackRanks(_, _, _, _, _, _)
RookAttackRanks(r, tf, step, last, blockers, att) ==
    IF (step > 0 /\ r <= last) \/ (step < 0 /\ r >= last)
    THEN LET bb == SQR(r, tf)
         IN  IF blockers \cap bb # {}
             THEN att \cup bb
             ELSE RookAttackRanks(r + step, tf, step, last, blockers, att \cup bb)
    ELSE att

\* one ray loop along a rank: add the square, break on a blocker
RECURSIVE RookAttackFiles(_, _, _, _, _, _)
RookAttackFiles(tr, f, step, last, blockers, att) ==
    IF (step > 0 /\ f <= last) \/ (step < 0 /\ f >= last)
    THEN LET bb == SQR(tr, f)
         IN  IF blockers \cap bb # {}
             THEN att \cup bb
             ELSE RookAttackFiles(tr, f + step, step, last, blockers, att \cup bb)
    ELSE att

\* rook_attacks_on_the_fly with attacks starting as the blockers, not as 0
rook_attacks_from_blockers(sq, blockers) ==
    LET tr == sq \div 8
        tf == sq % 8
        north == RookAttackRanks(tr + 1, tf, 1, RANK_8, blockers, blockers)
        south == RookAttackRanks(tr - 1, tf, -1, RANK_1, blockers, north)
        east == RookAttackFiles(tr, tf + 1, 1, H_FILE, blockers, south)
    IN  RookAttackFiles(tr, tf - 1, -1, A_FILE, blockers, east)

\* seeded fault: the break on a blocker is left out of the four loops
rook_attacks_no_break(sq, blockers) ==
    LET tr == sq \div 8
        tf == sq % 8
        north == RookAttackRanks(tr + 1, tf, 1, RANK_8, {}, {})
        south == RookAttackRanks(tr - 1, tf, -1, RANK_1, {}, north)
        east == RookAttackFiles(tr, tf + 1, 1, H_FILE, {}, south)
    IN  RookAttackFiles(tr, tf - 1, -1, A_FILE, {}, east)

\* seeded fault: the loops end one square before the edge, as those of the mask do
rook_attacks_short(sq, blockers) ==
    LET tr == sq \div 8
        tf == sq % 8
        north == RookAttackRanks(tr + 1, tf, 1, RANK_7, blockers, {})
        south == RookAttackRanks(tr - 1, tf, -1, RANK_2, blockers, north)
        east == RookAttackFiles(tr, tf + 1, 1, G_FILE, blockers, south)
    IN  RookAttackFiles(tr, tf - 1, -1, B_FILE, blockers, east)

rook_attacks_on_the_fly(sq, blockers) ==
    LET tr == sq \div 8
        tf == sq % 8
        north == RookAttackRanks(tr + 1, tf, 1, RANK_8, blockers, {})
        south == RookAttackRanks(tr - 1, tf, -1, RANK_1, blockers, north)
        east == RookAttackFiles(tr, tf + 1, 1, H_FILE, blockers, south)
    IN  RookAttackFiles(tr, tf - 1, -1, A_FILE, blockers, east)

-----------------------------------------------------------------------------
(* bishop.c: occupancy mask and reference ray walk *)

\* for (r, f; r within rlast && f within flast; r += dr, f += df): mask |= SQR(r, f)
RECURSIVE BishopMaskRay(_, _, _, _, _, _, _)
BishopMaskRay(r, f, dr, df, rlast, flast, mask) ==
    IF /\ (dr > 0 /\ r <= rlast) \/ (dr < 0 /\ r >= rlast)
       /\ (df > 0 /\ f <= flast) \/ (df < 0 /\ f >= flast)
    THEN BishopMaskRay(r + dr, f + df, dr, df, rlast, flast, mask \cup SQR(r, f))
    ELSE mask

\* bishop_occu_mask with the loops run up to the board edge
bishop_occu_mask_to_edge(sq) ==
    LET tr == sq \div 8
        tf == sq % 8
        ne == BishopMaskRay(tr + 1, tf + 1, 1, 1, RANK_8, H_FILE, {})
        nw == BishopMaskRay(tr + 1, tf - 1, 1, -1, RANK_8, A_FILE, ne)
        se == BishopMaskRay(tr - 1, tf + 1, -1, 1, RANK_1, H_FILE, nw)
    IN  BishopMaskRay(tr - 1, tf - 1, -1, -1, RANK_1, A_FILE, se)

bishop_occu_mask(sq) ==
    LET tr == sq \div 8
        tf == sq % 8
        ne == BishopMaskRay(tr + 1, tf + 1, 1, 1, RANK_7, G_FILE, {})
        nw == BishopMaskRay(tr + 1, tf - 1, 1, -1, RANK_7, B_FILE, ne)
        se == BishopMaskRay(tr - 1, tf + 1, -1, 1, RANK_2, G_FILE, nw)
    IN  BishopMaskRay(tr - 1, tf - 1, -1, -1, RANK_2, B_FILE, se)

\* one diagonal ray loop: add the square, break on a blocker
RECURSIVE BishopAttackRay(_, _, _, _, _, _, _, _)
BishopAttackRay(r, f, dr, df, rlast, flast, blockers, att) ==
    IF /\ (dr > 0 /\ r <= rlast) \/ (dr < 0 /\ r >= rlast)
       /\ (df > 0 /\ f <= flast) \/ (df < 0 /\ f >= flast)
    THEN LET bb == SQR(r, f)
         IN  IF blockers \cap bb # {}
             THEN att \cup bb
             ELSE BishopAttackRay(r + dr, f + df, dr, df, rlast, flast,
                                  blockers, att \cup bb)
    ELSE att

\* bishop_attacks_on_the_fly without its two southward loops
bishop_attacks_north_only(sq, blockers) ==
    LET tr == sq \div 8
        tf == sq % 8
        ne == BishopAttackRay(tr + 1, tf + 1, 1, 1, RANK_8, H_FILE, blockers, {})
    IN  BishopAttackRay(tr + 1, tf - 1, 1, -1, RANK_8, A_FILE, blockers, ne)

\* seeded fault: the loops end one square before the edge, as those of the mask do
bishop_attacks_short(sq, blockers) ==
    LET tr == sq \div 8
        tf == sq % 8
        ne == BishopAttackRay(tr + 1, tf + 1, 1, 1, RANK_7, G_FILE, blockers, {})
        nw == BishopAttackRay(tr + 1, tf - 1, 1, -1, RANK_7, B_FILE, blockers, ne)
        se == BishopAttackRay(tr - 1, tf + 1, -1, 1, RANK_2, G_FILE, blockers, nw)
    IN  BishopAttackRay(tr - 1, tf - 1, -1, -1, RANK_2, B_FILE, blockers, se)

bishop_attacks_on_the_fly(sq, blockers) ==
    LET tr == sq \div 8
        tf == sq % 8
        ne == BishopAttackRay(tr + 1, tf + 1, 1, 1, RANK_8, H_FILE, blockers, {})
        nw == BishopAttackRay(tr + 1, tf - 1, 1, -1, RANK_8, A_FILE, blockers, ne)
        se == BishopAttackRay(tr - 1, tf + 1, -1, 1, RANK_1, H_FILE, blockers, nw)
    IN  BishopAttackRay(tr - 1, tf - 1, -1, -1, RANK_1, A_FILE, blockers, se)

-----------------------------------------------------------------------------
(* 64-bit arithmetic on four 16-bit limbs, least significant limb first *)

Pow2(n) == 2 ^ n

\* limb j (0..3) of (m << b) mod 2^64, for limbs m and 0 <= b <= 63
ShlLimb(m, b, j) ==
    LET q == b \div 16
        r == b % 16
        lo == IF j - q \in 0..3 THEN (m[j - q + 1] % Pow2(16 - r)) * Pow2(r) ELSE 0
        hi == IF j - q - 1 \in 0..3 THEN m[j - q] \div Pow2(16 - r) ELSE 0
    IN  lo + hi

\* limb j of the sum over the bits b of bb of (m << b), carries not yet propagated
RECURSIVE ColumnSum(_, _, _)
ColumnSum(bb, m, j) ==
    IF bb = {} THEN 0
    ELSE LET b == CHOOSE x \in bb : TRUE
         IN  ShlLimb(m, b, j) + ColumnSum(bb \ {b}, m, j)

\* (bb * m) mod 2^64: uint64_t multiplication of a bitboard by a 64-bit number
Mul64(bb, m) ==
    LET s0 == ColumnSum(bb, m, 0)
        s1 == ColumnSum(bb, m, 1) + (s0 \div 65536)
        s2 == ColumnSum(bb, m, 2) + (s1 \div 65536)
        s3 == ColumnSum(bb, m, 3) + (s2 \div 65536)
    IN  <<s0 % 65536, s1 % 65536, s2 % 65536, s3 % 65536>>

\* the bitboard (set of set bits) of a limb number
U64Bits(m) == UNION {{16 * j + b : b \in IntBits(m[j + 1], 0)} : j \in 0..3}

\* the limb number of a bitboard
RECURSIVE BitsValue(_)
BitsValue(bits) ==
    IF bits = {} THEN 0
    ELSE LET b == CHOOSE x \in bits : TRUE IN Pow2(b) + BitsValue(bits \ {b})

U64Limbs(bb) == [j \in 1..4 |-> BitsValue({b - 16 * (j - 1) : b \in {x \in bb : x \div 16 = j - 1}})]

\* (m >> n) as an index, for 48 <= n <= 63: only the top limb is left
ShiftRightIndex(m, n) == m[4] \div Pow2(n - 48)

\* the least significant set bit of a non-empty bitboard (count of trailing zeros)
LowestBit(bb) == CHOOSE b \in bb : \A x \in bb : b <= x

\* bb - 1 on uint64_t: the borrow runs up to the lowest set bit; 0 - 1 is all ones
Minus1(bb) ==
    IF bb = {} THEN AllBits
    ELSE (bb \ {LowestBit(bb)}) \cup {b \in AllBits : b < LowestBit(bb)}

\* bb ^ x
Xor(bb, x) == (bb \ x) \cup (x \ bb)

\* -bb on uint64_t (two's complement): ~bb + 1
Negate(bb) ==
    IF bb = {} THEN {}
    ELSE {LowestBit(bb)} \cup {b \in AllBits : b > LowestBit(bb) /\ b \notin bb}

-----------------------------------------------------------------------------
(* bitboard.c: bit primitives in their build variants *)

BuildVariants == {"HAVE___BUILTIN_FFSLL", "HAVE___BUILTIN_CTZLL",
                  "HAVE___BUILTIN_POPCOUNTLL", "HAVE_FFSLL", "PORTABLE"}

index64 == << 0, 47,  1, 56, 48, 27,  2, 60,
             57, 49, 41, 37, 28, 16,  3, 61,
             54, 58, 35, 52, 50, 42, 21, 44,
             38, 32, 29, 23, 17, 11,  4, 62,
             46, 55, 26, 59, 40, 36, 15, 53,
             34, 51, 20, 43, 31, 22, 10, 45,
             25, 39, 14, 33, 19, 30,  9, 24,
             13, 18,  8, 12,  7,  6,  5, 63 >>

\* 0x03f79d71b4cb0a89
debruijn64 == <<2697, 46283, 40305, 1015>>

bitScanForward(bb) == index64[ShiftRightIndex(Mul64(Xor(bb, Minus1(bb)), debruijn64), 58) + 1]

RECURSIVE KernighanLoop(_, _)
KernighanLoop(bb, count) ==
    IF bb # {} THEN KernighanLoop(bb \cap Minus1(bb), (count + 1) % 256) ELSE count

brain_kernighan_algo(bb) == KernighanLoop(bb, 0)

\* __builtin_popcountll
builtin_popcountll(bb) == Cardinality(bb)

\* __builtin_ffsll / ffsll: one plus the index of the least significant 1-bit, 0 for 0
builtin_ffsll(bb) == IF bb = {} THEN 0 ELSE LowestBit(bb) + 1

\* __builtin_ctzll, for bb # 0
builtin_ctzll(bb) == LowestBit(bb)

\* a compiler that has one of the bit builtins has __builtin_popcountll
count_bits_in(b, bb) ==
    IF b \in {"HAVE___BUILTIN_FFSLL", "HAVE___BUILTIN_CTZLL", "HAVE___BUILTIN_POPCOUNTLL"}
    THEN builtin_popcountll(bb)
    ELSE brain_kernighan_algo(bb)

count_bits(bb) == count_bits_in(build, bb)

get_ls1b_in(b, bb) ==
    CASE b = "HAVE___BUILTIN_FFSLL" -> builtin_ffsll(bb)
      [] b = "HAVE___BUILTIN_CTZLL" -> IF bb # {} THEN builtin_ctzll(bb) ELSE 0
      [] b = "HAVE___BUILTIN_POPCOUNTLL" ->
            IF bb # {} THEN builtin_popcountll(Minus1(bb \cap Negate(bb))) ELSE 0
      [] b = "HAVE_FFSLL" -> builtin_ffsll(bb)
      [] OTHER -> IF bb # {} THEN bitScanForward(bb) ELSE 0

get_ls1b(bb) == get_ls1b_in(build, bb)

-----------------------------------------------------------------------------
(* bitboard.c: occupancy enumeration and magic number search *)

Zero64 == <<0, 0, 0, 0>>

\* BB_RANK_1 is 0xff, BB_RANK_8 is BB_RANK_1 << (8 * 7)
BB_RANK_1 == 0..7
BB_RANK_8 == ShiftLeft(BB_RANK_1, 8 * 7)

\* POP_BIT(bb, sq): bb &= ~BIT(sq)
POP_BIT(bb, sq) == bb \ BIT(sq)

\* index & (1 << count)
IndexBit(index, count) == (index \div Pow2(count)) % 2 = 1

\* the loop of set_occupancy from iteration count on
RECURSIVE SetOccupancyLoop(_, _, _, _, _)
SetOccupancyLoop(count, index, bits_in_mask, attack_mask, occupancy) ==
    IF count < bits_in_mask
    THEN LET sq == get_ls1b(attack_mask)
             body == << POP_BIT(attack_mask, sq),
                        IF IndexBit(index, count)
                        THEN occupancy \cup BIT(sq) ELSE occupancy >>
         IN  \* the values of this iteration, computed once, enter the next one
             CHOOSE r \in { SetOccupancyLoop(count + 1, index, bits_in_mask, v[1], v[2])
                              : v \in {body} } : TRUE
    ELSE occupancy

set_occupancy(index, bits_in_mask, attack_mask) ==
    SetOccupancyLoop(0, index, bits_in_mask, attack_mask, {})

\* magic_hashing with the shift one bit short
magic_hashing_short_shift(key, magic, bits_in_idx) ==
    ShiftRightIndex(Mul64(key, magic), 64 - bits_in_idx - 1)

magic_hashing(key, magic, bits_in_idx) ==
    ShiftRightIndex(Mul64(key, magic), 64 - bits_in_idx)

\* the reference attacks init_occupancy_indicies stores for one occupancy
OnTheFly(piece, sq, occu) ==
    IF piece = BISHOP THEN bishop_attacks_on_the_fly(sq, occu)
    ELSE rook_attacks_on_the_fly(sq, occu)

\* A C array is modelled as a sequence: entry idx of the array is element idx + 1.
\* n entries holding v
RECURSIVE Fill(_, _)
Fill(n, v) ==
    IF n = 0 THEN <<>>
    ELSE IF n = 1 THEN <<v>>
    ELSE Fill(n \div 2, v) \o Fill(n - n \div 2, v)

\* occupancies[lo .. hi-1] as the loop of init_occupancy_indicies writes them
RECURSIVE OccupancyEntries(_, _, _, _)
OccupancyEntries(lo, hi, relv_bits, attack_mask) ==
    IF hi - lo = 1 THEN <<set_occupancy(lo, relv_bits, attack_mask)>>
    ELSE OccupancyEntries(lo, (lo + hi) \div 2, relv_bits, attack_mask) \o
         OccupancyEntries((lo + hi) \div 2, hi, relv_bits, attack_mask)

\* attacks[lo .. hi-1] as the loop of init_occupancy_indicies writes them
RECURSIVE AttackEntries(_, _, _, _, _)
AttackEntries(lo, hi, piece, sq, occ) ==
    IF hi - lo = 1 THEN <<OnTheFly(piece, sq, occ[lo + 1])>>
    ELSE AttackEntries(lo, (lo + hi) \div 2, piece, sq, occ) \o
         AttackEntries((lo + hi) \div 2, hi, piece, sq, occ)

\* occupancies[] and attacks[] as filled for idx in 0 .. (1 << relv_bits) - 1;
\* ok is FALSE when the piece is no slider
init_occupancy_indicies(sq, relv_bits, piece, attack_mask) ==
    IF piece \in {BISHOP, ROOK}
    THEN CHOOSE r \in { [ok |-> TRUE,
                         occupancies |-> occ,
                         attacks |-> AttackEntries(0, Pow2(relv_bits), piece, sq, occ)]
                        : occ \in {OccupancyEntries(0, Pow2(relv_bits), relv_bits,
                                                    attack_mask)} } : TRUE
    ELSE [ok |-> FALSE, occupancies |-> <<>>, attacks |-> <<>>]

\* find_magic_number declares uint64_t used_attacks[4096]; memset(used_attacks, 0, 4096)
\* and bzero(used_attacks, 4096) clear 4096 bytes of it
ScratchLen == 4096
ClearedBytes == 4096
SizeofU64 == 8

init_used_attacks(used) ==
    Fill(ClearedBytes \div SizeofU64, {}) \o
    SubSeq(used, ClearedBytes \div SizeofU64 + 1, ScratchLen)

\* skip_magic that lets pass every candidate whose product has a bit in the high byte
skip_magic_one_bit(attack_mask, magic) ==
    count_bits(U64Bits(Mul64(attack_mask, magic)) \cap BB_RANK_8) < 1

\* skip_magic that skips no candidate
skip_magic_never(attack_mask, magic) == FALSE

skip_magic(attack_mask, magic) ==
    count_bits(U64Bits(Mul64(attack_mask, magic)) \cap BB_RANK_8) < 6

\* the iteration of test_magic without the comparison: a slot in use is overwritten
TestMagicStepNoCompare(idx, relv_bits, magic, occ, att, st) ==
    LET magic_idx == magic_hashing(occ[idx + 1], magic, relv_bits)
    IN  [ok |-> TRUE, used |-> [st.used EXCEPT ![magic_idx + 1] = att[idx + 1]]]

\* the iteration of test_magic that rejects every second use of a slot
TestMagicStepNoSharing(idx, relv_bits, magic, occ, att, st) ==
    LET magic_idx == magic_hashing(occ[idx + 1], magic, relv_bits)
    IN  IF st.used[magic_idx + 1] = {}
        THEN [ok |-> TRUE, used |-> [st.used EXCEPT ![magic_idx + 1] = att[idx + 1]]]
        ELSE [ok |-> FALSE, used |-> st.used]

\* the iteration of test_magic that takes a slot in use for a match, whatever it holds
TestMagicStepSlotTrusted(idx, relv_bits, magic, occ, att, st) ==
    LET magic_idx == magic_hashing(occ[idx + 1], magic, relv_bits)
    IN  IF st.used[magic_idx + 1] = {}
        THEN [ok |-> TRUE, used |-> [st.used EXCEPT ![magic_idx + 1] = att[idx + 1]]]
        ELSE st

\* one iteration of the loop of test_magic on the state st = [ok, used]
TestMagicStep(idx, relv_bits, magic, occ, att, st) ==
    LET magic_idx == magic_hashing(occ[idx + 1], magic, relv_bits)
    IN  IF st.used[magic_idx + 1] = {}
        THEN [ok |-> TRUE, used |-> [st.used EXCEPT ![magic_idx + 1] = att[idx + 1]]]
        ELSE IF st.used[magic_idx + 1] # att[idx + 1]
             THEN [ok |-> FALSE, used |-> st.used]
             ELSE st

\* iterations lo .. hi-1 of the loop of test_magic, in order; the loop is left at
\* the first collision
RECURSIVE TestMagicLoop(_, _, _, _, _, _, _)
TestMagicLoop(lo, hi, relv_bits, magic, occ, att, st) ==
    IF hi - lo = 1
    THEN TestMagicStep(lo, relv_bits, magic, occ, att, st)
    ELSE CHOOSE r \in { IF ~first.ok THEN first
                        ELSE TestMagicLoop((lo + hi) \div 2, hi, relv_bits, magic,
                                           occ, att, first)
                        : first \in {TestMagicLoop(lo, (lo + hi) \div 2, relv_bits,
                                                   magic, occ, att, st)} } : TRUE

\* returns [ok |-> the result, used |-> used_attacks as the call leaves it]
test_magic(relv_bits, magic, occ, att, used) ==
    TestMagicLoop(0, Pow2(relv_bits), relv_bits, magic, occ, att,
                  [ok |-> TRUE, used |-> used])

-----------------------------------------------------------------------------
(* pawn.c, king.c, knight.c: leaper attack masks *)

mask_pawn_attacks(turn, sq) ==
    LET bb == BIT(sq)
    IN  IF turn = WHITE
        THEN SHIFT_NE(bb) \cup SHIFT_NW(bb)
        ELSE SHIFT_SE(bb) \cup SHIFT_SW(bb)

mask_king_attacks(sq) ==
    LET bb == BIT(sq)
    IN  SHIFT_N(bb) \cup SHIFT_S(bb) \cup SHIFT_E(bb) \cup SHIFT_W(bb) \cup
        SHIFT_NE(bb) \cup SHIFT_NW(bb) \cup SHIFT_SE(bb) \cup SHIFT_SW(bb)

\* the squares of the files in fs
FilesBB(fs) == {b \in AllBits : b % 8 \in fs}

\* The knight shifts: one knight step in the named direction with the file-wrap bits
\* masked off; offsets as in the compass rose of knight.c (north is +8, east is +1).
SHIFT_NNE(bb) == ShiftLeft(bb \ FilesBB({H_FILE}), 17)
SHIFT_NNW(bb) == ShiftLeft(bb \ FilesBB({A_FILE}), 15)
SHIFT_NEE(bb) == ShiftLeft(bb \ FilesBB({G_FILE, H_FILE}), 10)
SHIFT_NWW(bb) == ShiftLeft(bb \ FilesBB({A_FILE, B_FILE}), 6)
SHIFT_SSE(bb) == ShiftRight(bb \ FilesBB({H_FILE}), 15)
SHIFT_SSW(bb) == ShiftRight(bb \ FilesBB({A_FILE}), 17)
SHIFT_SEE(bb) == ShiftRight(bb \ FilesBB({G_FILE, H_FILE}), 6)
SHIFT_SWW(bb) == ShiftRight(bb \ FilesBB({A_FILE, B_FILE}), 10)

\* seeded fault: one of the eight knight shifts is missing
mask_knight_attacks_seven(sq) ==
    LET bb == BIT(sq)
    IN  SHIFT_NNE(bb) \cup SHIFT_NNW(bb) \cup SHIFT_NEE(bb) \cup SHIFT_NWW(bb) \cup
        SHIFT_SSE(bb) \cup SHIFT_SSW(bb) \cup SHIFT_SEE(bb)

mask_knight_attacks(sq) ==
    LET bb == BIT(sq)
    IN  SHIFT_NNE(bb) \cup SHIFT_NNW(bb) \cup SHIFT_NEE(bb) \cup SHIFT_NWW(bb) \cup
        SHIFT_SSE(bb) \cup SHIFT_SSW(bb) \cup SHIFT_SEE(bb) \cup SHIFT_SWW(bb)

-----------------------------------------------------------------------------
(* bishop.c, rook.c, queen.c: the magic lookup tables *)

\* the squares the slider tables are modelled for; main() queries C2 and E3
SqList == <<C2, E3, E4, D4, A1, H8>>

ModelSquares == {SqList[i] : i \in 1..NumSq}

\* struct magic_lut { mask, obits, magic }: the zero-initialised static entry
ZeroLut == [mask |-> {}, obits |-> 0, magic |-> Zero64]

\* Battacks[sq] has 512 entries, Rattacks[sq] has 4096
BattacksLen == 512
RattacksLen == 4096

\* the loop body of init_bishop_attacks / init_rook_attacks for i in lo .. hi-1:
\* row[magic_idx] = attacks on the fly for the i-th occupancy variation
RECURSIVE PopulateLoop(_, _, _, _, _, _)
PopulateLoop(lo, hi, piece, sq, lut, row) ==
    IF hi - lo = 1
    THEN CHOOSE r \in { [row EXCEPT ![magic_hashing(occu, lut.magic, lut.obits) + 1] =
                             OnTheFly(piece, sq, occu)]
                        : occu \in {set_occupancy(lo, lut.obits, lut.mask)} } : TRUE
    ELSE CHOOSE r \in { PopulateLoop((lo + hi) \div 2, hi, piece, sq, lut, first)
                        : first \in {PopulateLoop(lo, (lo + hi) \div 2, piece, sq,
                                                  lut, row)} } : TRUE

\* the loop over the squares, from the i-th modelled square on
RECURSIVE InitAttacksLoop(_, _, _, _)
InitAttacksLoop(i, piece, lut, table) ==
    IF i > NumSq THEN table
    ELSE CHOOSE r \in { InitAttacksLoop(i + 1, piece, lut, t)
                        : t \in {[table EXCEPT ![SqList[i]] =
                                    PopulateLoop(0, Pow2(lut[SqList[i]].obits), piece,
                                                 SqList[i], lut[SqList[i]],
                                                 table[SqList[i]])]} } : TRUE

\* seeded fault: the occupancy is hashed without occu &= mask
get_bishop_attacks_unmasked(sq, occu) ==
    Battacks[sq][magic_hashing(occu, B_lut[sq].magic, B_lut[sq].obits) + 1]

\* occu &= mask; occu *= magic; occu >>= 64 - obits; return Battacks[sq][occu]
get_bishop_attacks(sq, occu) ==
    Battacks[sq][magic_hashing(occu \cap B_lut[sq].mask, B_lut[sq].magic,
                               B_lut[sq].obits) + 1]

\* the rook lookup, the counterpart of get_bishop_attacks on R_lut and Rattacks
get_rook_attacks(sq, occu) ==
    Rattacks[sq][magic_hashing(occu \cap R_lut[sq].mask, R_lut[sq].magic,
                               R_lut[sq].obits) + 1]

\* seeded fault: the rook half of the queen is missing
get_queen_attacks_bishop_only(sq, occu) == get_bishop_attacks(sq, occu)

get_queen_attacks(sq, occu) ==
    get_bishop_attacks(sq, occu) \cup get_rook_attacks(sq, occu)

-----------------------------------------------------------------------------
(* bitboard.c find_magic_number, bishop.c / rook.c init_*_magic: the magic search *)

\* random_u64_fewbits() returns any 64-bit number; the model draws, for the i-th
\* modelled square, zero, a magic found for the bishop and one found for the rook
BishopMagics == << <<18563, 33280, 4224, 42496>>,      \* c2: 0xa600108082004883
                   <<16384, 289, 258, 51204>>,         \* e3: 0xc804010201214000
                   <<8464, 2560, 1024, 7681>>,         \* e4: 0x1e0104000a002110
                   <<2656, 6145, 1024, 16394>>,        \* d4: 0x400a040018010a60
                   <<16400, 2050, 1052, 9632>>,        \* a1: 0x25a0041c08024010
                   <<32896, 128, 8200, 34050>> >>      \* h8: 0x8502200800808080

RookMagics == << <<4096, 8192, 32896, 2064>>,          \* c2: 0x0810808020001000
                 <<2049, 4100, 256, 32769>>,           \* e3: 0x8001010010040801
                 <<4, 8, 4353, 8576>>,                 \* e4: 0x2180110100080004
                 <<384, 32808, 12290, 16384>>,         \* d4: 0x4000300280280180
                 <<32769, 8448, 4160, 256>>,           \* a1: 0x0100104021008001
                 <<50178, 33044, 33057, 1668>> >>      \* h8: 0x068481218114c402

\* further values random_u64_fewbits may return; with those of c2, a1 and h8 the
\* hash of the bishop puts occupancies of equal attack sets, and no others, into one
\* slot
OtherMagics == << <<96, 18626, 8577, 512>>,                \* 0x0200218148c20060
                  <<96, 18626, 8577, 512>>,
                  <<96, 18626, 8577, 512>>,
                  <<96, 18626, 8577, 512>>,
                  <<15912, 1024, 14384, 262>>,             \* 0x0106383004003e28
                  <<25, 36356, 20513, 17445>> >>           \* 0x442550218e040019

random_u64_fewbits(i) == {Zero64, BishopMagics[i], RookMagics[i], OtherMagics[i]}

\* what the uninitialised array used_attacks[4096] may hold in every entry when
\* find_magic_number is entered
StackGarbage == {{}, AllBits}

\* the positions of main(), in program order
PcOrder == << "init_pawn_attacks", "init_knight_attacks", "init_king_attacks",
              "init_bishop_magic", "find_magic_number_bishop",
              "init_rook_magic", "find_magic_number_rook",
              "init_bishop_attacks", "init_rook_attacks", "ready", "answered" >>

Pos(p) == CHOOSE i \in 1..Len(PcOrder) : PcOrder[i] = p

NoQuery == [kind |-> "none", sq |-> 0, occu |-> {}, result |-> {}]

\* the occupancy main() builds for its two queries
MainOccupancy == {C5, F2, G7, B2, G5, E2, E7}

\* the occupancies queried: main()'s, its subsets of up to MaxQueryPieces pieces,
\* and two more with a piece on d3, a square of the mask of a bishop on c2
QueryOccupancies ==
    {o \in SUBSET MainOccupancy : Cardinality(o) <= MaxQueryPieces}
        \cup {MainOccupancy, {Coord("d", 3)}, MainOccupancy \cup {Coord("d", 3)}}

Init ==
    /\ build \in BuildVariants
    /\ bishop_magic_numbers = BishopMagics
    /\ rook_magic_numbers = RookMagics
    /\ pc = "init_pawn_attacks"
    /\ sqi = 0
    /\ pawn_attacks_lut = [c \in {WHITE, BLACK} |-> [sq \in Squares |-> {}]]
    /\ king_attacks_lut = [sq \in Squares |-> {}]
    /\ knight_attacks_lut = [sq \in Squares |-> {}]
    /\ B_lut = [sq \in ModelSquares |-> ZeroLut]
    /\ R_lut = [sq \in ModelSquares |-> ZeroLut]
    /\ Battacks = [sq \in ModelSquares |-> Fill(BattacksLen, {})]
    /\ Rattacks = [sq \in ModelSquares |-> Fill(RattacksLen, {})]
    /\ try = 0
    /\ occupancies = <<>>
    /\ attacks = <<>>
    /\ used_attacks = <<>>
    /\ use_pre_calc_magic = FALSE
    /\ returned_false = FALSE
    /\ query = NoQuery
    /\ fn = "none"
    /\ fsq = 0
    /\ fblockers = {}
    /\ findex = 0
    /\ fmagic = Zero64
    /\ fresult = {}
    /\ fret = 0

init_pawn_attacks ==
    /\ pc = "init_pawn_attacks"
    /\ pawn_attacks_lut' = [c \in {WHITE, BLACK} |->
                               [sq \in Squares |-> mask_pawn_attacks(c, sq)]]
    /\ pc' = "init_knight_attacks"
    /\ UNCHANGED <<buildVars, loaderVars, sqi, king_attacks_lut, knight_attacks_lut, B_lut, R_lut,
                   Battacks, Rattacks, try, occupancies, attacks, used_attacks, query,
                   fnVars>>

init_knight_attacks ==
    /\ pc = "init_knight_attacks"
    /\ knight_attacks_lut' = [sq \in Squares |-> mask_knight_attacks(sq)]
    /\ pc' = "init_king_attacks"
    /\ UNCHANGED <<buildVars, loaderVars, sqi, pawn_attacks_lut, king_attacks_lut, B_lut, R_lut,
                   Battacks, Rattacks, try, occupancies, attacks, used_attacks, query,
                   fnVars>>

\* init_king_attacks followed by a main() that does not call init_magic_numbers
init_king_attacks_then_sliders ==
    /\ pc = "init_king_attacks"
    /\ king_attacks_lut' = [sq \in Squares |-> mask_king_attacks(sq)]
    /\ pc' = "init_bishop_attacks"
    /\ sqi' = 1
    /\ UNCHANGED <<buildVars, loaderVars, pawn_attacks_lut, knight_attacks_lut, B_lut,
                   R_lut, Battacks, Rattacks, try, occupancies, attacks, used_attacks,
                   query, fnVars>>

init_king_attacks ==
    /\ pc = "init_king_attacks"
    /\ king_attacks_lut' = [sq \in Squares |-> mask_king_attacks(sq)]
    /\ pc' = "init_bishop_magic"
    /\ sqi' = 1
    /\ UNCHANGED <<buildVars, loaderVars, pawn_attacks_lut, knight_attacks_lut, B_lut, R_lut,
                   Battacks, Rattacks, try, occupancies, attacks, used_attacks, query,
                   fnVars>>

\* the entry of find_magic_number: the reference tables are filled, the scratch
\* array holds what the stack held, the first try is next
EnterFindMagic(piece, sq, attack_mask, relv_bits) ==
    \E garbage \in StackGarbage :
    \E io \in {init_occupancy_indicies(sq, relv_bits, piece, attack_mask)} :
        /\ occupancies' = io.occupancies
        /\ attacks' = io.attacks
        /\ used_attacks' = Fill(ScratchLen, garbage)
        /\ try' = 1

\* The loader init_magic_numbers when init_bishop_magic (bishop) or init_rook_magic
\* has returned result. After true it goes on: with init_rook_magic(false), or back
\* to main(). After false from a search it calls the same function again with the
\* flag set, to take the compiled-in magics; after false with the flag set it gives
\* up and returns to main(), which goes on with init_slider_attacks.
init_magic_numbers(bishop, result) ==
    /\ returned_false' = (returned_false \/ ~result)
    /\ use_pre_calc_magic' = (~result /\ ~use_pre_calc_magic)
    /\ pc' = IF ~result /\ ~use_pre_calc_magic
             THEN (IF bishop THEN "init_bishop_magic" ELSE "init_rook_magic")
             ELSE IF result /\ bishop THEN "init_rook_magic" ELSE "init_bishop_attacks"
    /\ sqi' = 1

\* The rest of a pass of the loop of init_*_magic once the entry lut of the square
\* is known, its mask, its obits and its magic (found, compiled in, or 0 from a
\* failed search): a magic of 0 makes init_*_magic return false, the last square
\* makes it return true, any other goes on with the next square.
ReturnMagic(lut) ==
    LET bishop == pc \in {"init_bishop_magic", "find_magic_number_bishop"}
    IN  /\ IF bishop
           THEN /\ B_lut' = [B_lut EXCEPT ![SqList[sqi]] = lut]
                /\ R_lut' = R_lut
           ELSE /\ R_lut' = [R_lut EXCEPT ![SqList[sqi]] = lut]
                /\ B_lut' = B_lut
        /\ IF lut.magic = Zero64
           THEN init_magic_numbers(bishop, FALSE)
           ELSE IF sqi < NumSq
                THEN /\ pc' = IF bishop THEN "init_bishop_magic" ELSE "init_rook_magic"
                     /\ sqi' = sqi + 1
                     /\ UNCHANGED loaderVars
                ELSE init_magic_numbers(bishop, TRUE)
        /\ try' = 0
        /\ occupancies' = <<>>
        /\ attacks' = <<>>
        /\ used_attacks' = <<>>

\* init_bishop_magic that ignores its flag and always searches
init_bishop_magic_flag_ignored ==
    /\ pc = "init_bishop_magic"
    /\ \E mask \in {bishop_occu_mask(SqList[sqi])} :
           /\ B_lut' = [B_lut EXCEPT ![SqList[sqi]].mask = mask,
                                     ![SqList[sqi]].obits = count_bits(mask)]
           /\ EnterFindMagic(BISHOP, SqList[sqi], mask, count_bits(mask))
           /\ pc' = "find_magic_number_bishop"
           /\ UNCHANGED <<sqi, R_lut, loaderVars>>
    /\ UNCHANGED <<buildVars, pawn_attacks_lut, king_attacks_lut, knight_attacks_lut,
                   Battacks, Rattacks, query, fnVars>>

\* one pass of the loop of init_bishop_magic: up to the call of find_magic_number,
\* or the whole pass when the compiled-in magic is taken
init_bishop_magic ==
    /\ pc = "init_bishop_magic"
    /\ \E mask \in {bishop_occu_mask(SqList[sqi])} :
           IF use_pre_calc_magic
           THEN ReturnMagic([mask |-> mask, obits |-> count_bits(mask),
                             magic |-> bishop_magic_numbers[sqi]])
           ELSE /\ B_lut' = [B_lut EXCEPT ![SqList[sqi]].mask = mask,
                                          ![SqList[sqi]].obits = count_bits(mask)]
                /\ EnterFindMagic(BISHOP, SqList[sqi], mask, count_bits(mask))
                /\ pc' = "find_magic_number_bishop"
                /\ UNCHANGED <<sqi, R_lut, loaderVars>>
    /\ UNCHANGED <<buildVars, pawn_attacks_lut, king_attacks_lut, knight_attacks_lut,
                   Battacks, Rattacks, query, fnVars>>

\* one pass of the loop of init_rook_magic, likewise
init_rook_magic ==
    /\ pc = "init_rook_magic"
    /\ \E mask \in {rook_occu_mask(SqList[sqi])} :
           IF use_pre_calc_magic
           THEN ReturnMagic([mask |-> mask, obits |-> count_bits(mask),
                             magic |-> rook_magic_numbers[sqi]])
           ELSE /\ R_lut' = [R_lut EXCEPT ![SqList[sqi]].mask = mask,
                                          ![SqList[sqi]].obits = count_bits(mask)]
                /\ EnterFindMagic(ROOK, SqList[sqi], mask, count_bits(mask))
                /\ pc' = "find_magic_number_rook"
                /\ UNCHANGED <<sqi, B_lut, loaderVars>>
    /\ UNCHANGED <<buildVars, pawn_attacks_lut, king_attacks_lut, knight_attacks_lut,
                   Battacks, Rattacks, query, fnVars>>

\* the largest value of the int try of find_magic_number, 2^31 - 1
INT_MAX == 2147483647

\* try++ after a candidate that was skipped or rejected while try < INT_MAX. The model
\* follows the first MaxTry - 1 candidates one by one; after the last of them it goes
\* on to the candidate drawn with try = INT_MAX, all candidates in between being
\* skipped (a skipped candidate changes nothing but try).
NextTry(t) == IF t + 1 < MaxTry THEN t + 1 ELSE INT_MAX

\* try++ with try = INT_MAX is a signed overflow, which the language leaves undefined.
\* Where the addition wraps, try is negative next and the loop goes on until try is
\* 0: find_magic_number returns 0 (the candidates of that stretch skipped); where the
\* compiler has taken try for never 0, the loop has no exit and goes on with the
\* next candidate.
TryOverflow(lut, used) ==
    \/ ReturnMagic([lut EXCEPT !.magic = Zero64])
    \/ /\ used_attacks' = used
       /\ UNCHANGED <<pc, sqi, try, B_lut, R_lut, occupancies, attacks, loaderVars>>

\* the body of the loop of find_magic_number for the candidate magic: the candidate
\* is skipped, or used_attacks is cleared and the candidate tested;
\* [tested, ok |-> test_magic returned true, used |-> used_attacks afterwards]
FindMagicPass(lut, magic, occ, att, used) ==
    IF skip_magic(lut.mask, magic)
    THEN [tested |-> FALSE, ok |-> FALSE, used |-> used]
    ELSE CHOOSE r \in { [tested |-> TRUE, ok |-> t.ok, used |-> t.used]
                        : t \in {test_magic(lut.obits, magic, occ, att,
                                            init_used_attacks(used))} } : TRUE

\* one pass of the loop of find_magic_number: a candidate is drawn, skipped or tested,
\* and returned when the test accepts it; otherwise try++ and the loop test
find_magic_number ==
    /\ pc \in {"find_magic_number_bishop", "find_magic_number_rook"}
    /\ \E magic \in random_u64_fewbits(sqi) :
       \E lut \in {IF pc = "find_magic_number_bishop"
                   THEN B_lut[SqList[sqi]] ELSE R_lut[SqList[sqi]]} :
       \E pass \in {FindMagicPass(lut, magic, occupancies, attacks, used_attacks)} :
           IF pass.ok
           THEN ReturnMagic([lut EXCEPT !.magic = magic])
           ELSE IF try < INT_MAX
                THEN /\ try' = NextTry(try)
                     /\ used_attacks' = pass.used
                     /\ UNCHANGED <<pc, sqi, B_lut, R_lut, occupancies, attacks,
                                    loaderVars>>
                ELSE TryOverflow(lut, pass.used)
    /\ UNCHANGED <<buildVars, pawn_attacks_lut, king_attacks_lut, knight_attacks_lut,
                   Battacks, Rattacks, query, fnVars>>

init_bishop_attacks ==
    /\ pc = "init_bishop_attacks"
    /\ Battacks' = InitAttacksLoop(1, BISHOP, B_lut, Battacks)
    /\ pc' = "init_rook_attacks"
    /\ UNCHANGED <<buildVars, loaderVars, sqi, pawn_attacks_lut, king_attacks_lut, knight_attacks_lut,
                   B_lut, R_lut, Rattacks, try, occupancies, attacks, used_attacks,
                   query, fnVars>>

init_rook_attacks ==
    /\ pc = "init_rook_attacks"
    /\ Rattacks' = InitAttacksLoop(1, ROOK, R_lut, Rattacks)
    /\ pc' = "ready"
    /\ UNCHANGED <<buildVars, loaderVars, sqi, pawn_attacks_lut, king_attacks_lut, knight_attacks_lut,
                   B_lut, R_lut, Battacks, try, occupancies, attacks, used_attacks,
                   query, fnVars>>

tableVars == <<buildVars, loaderVars, sqi, pawn_attacks_lut, king_attacks_lut, knight_attacks_lut,
               B_lut, R_lut, Battacks, Rattacks, try, occupancies, attacks,
               used_attacks>>

GetBishopAttacks ==
    /\ pc = "ready"
    /\ \E sq \in ModelSquares, occu \in QueryOccupancies :
           query' = [kind |-> "bishop", sq |-> sq, occu |-> occu,
                     result |-> get_bishop_attacks(sq, occu)]
    /\ pc' = "answered"
    /\ UNCHANGED <<tableVars, fnVars>>

GetRookAttacks ==
    /\ pc = "ready"
    /\ \E sq \in ModelSquares, occu \in QueryOccupancies :
           query' = [kind |-> "rook", sq |-> sq, occu |-> occu,
                     result |-> get_rook_attacks(sq, occu)]
    /\ pc' = "answered"
    /\ UNCHANGED <<tableVars, fnVars>>

GetQueenAttacks ==
    /\ pc = "ready"
    /\ \E sq \in ModelSquares, occu \in QueryOccupancies :
           query' = [kind |-> "queen", sq |-> sq, occu |-> occu,
                     result |-> get_queen_attacks(sq, occu)]
    /\ pc' = "answered"
    /\ UNCHANGED <<tableVars, fnVars>>

\* the caller has used the result and is ready for its next query
print_bitboard ==
    /\ pc = "answered"
    /\ pc' = "ready"
    /\ query' = NoQuery
    /\ UNCHANGED <<tableVars, fnVars>>

Next ==
    \/ init_pawn_attacks
    \/ init_knight_attacks
    \/ init_king_attacks
    \/ init_bishop_magic
    \/ init_rook_magic
    \/ find_magic_number
    \/ init_bishop_attacks
    \/ init_rook_attacks
    \/ GetBishopAttacks
    \/ GetRookAttacks
    \/ GetQueenAttacks
    \/ print_bitboard

Spec == Init /\ [][Next]_vars

\* A build whose compiled-in magics were not vetted: a magic of 1, under which every
\* occupancy of the masks of c2 has index 0, or a magic of 0
UnvettedTables ==
    { [bishop |-> [BishopMagics EXCEPT ![1] = <<1, 0, 0, 0>>], rook |-> RookMagics],
      [bishop |-> BishopMagics, rook |-> [RookMagics EXCEPT ![1] = <<1, 0, 0, 0>>]],
      [bishop |-> BishopMagics, rook |-> [RookMagics EXCEPT ![1] = Zero64]] }

InitPre ==
    /\ build = "HAVE___BUILTIN_CTZLL"
    /\ \E t \in UnvettedTables :
           /\ bishop_magic_numbers = t.bishop
           /\ rook_magic_numbers = t.rook
    /\ pc = "init_pawn_attacks"
    /\ sqi = 0
    /\ pawn_attacks_lut = [c \in {WHITE, BLACK} |-> [sq \in Squares |-> {}]]
    /\ king_attacks_lut = [sq \in Squares |-> {}]
    /\ knight_attacks_lut = [sq \in Squares |-> {}]
    /\ B_lut = [sq \in ModelSquares |-> ZeroLut]
    /\ R_lut = [sq \in ModelSquares |-> ZeroLut]
    /\ Battacks = [sq \in ModelSquares |-> Fill(BattacksLen, {})]
    /\ Rattacks = [sq \in ModelSquares |-> Fill(RattacksLen, {})]
    /\ try = 0
    /\ occupancies = <<>>
    /\ attacks = <<>>
    /\ used_attacks = <<>>
    /\ use_pre_calc_magic = FALSE
    /\ returned_false = FALSE
    /\ query = NoQuery
    /\ fn = "none"
    /\ fsq = 0
    /\ fblockers = {}
    /\ findex = 0
    /\ fmagic = Zero64
    /\ fresult = {}
    /\ fret = 0

SpecPre == InitPre /\ [][Next]_vars

-----------------------------------------------------------------------------
(* The function harness: one call of a ray walk or of a shift macro *)

\* the squares blockers are placed on
BlockerPool == { Coord("e", 2), Coord("e", 7), Coord("b", 4), Coord("b", 2),
                 Coord("f", 6), Coord("e", 4), Coord("a", 1), Coord("h", 8) }

InitFn ==
    /\ build = "PORTABLE"
    /\ bishop_magic_numbers = BishopMagics
    /\ rook_magic_numbers = RookMagics
    /\ pc = "harness"
    /\ sqi = 0
    /\ pawn_attacks_lut = [c \in {WHITE, BLACK} |-> [sq \in Squares |-> {}]]
    /\ king_attacks_lut = [sq \in Squares |-> {}]
    /\ knight_attacks_lut = [sq \in Squares |-> {}]
    /\ B_lut = [sq \in ModelSquares |-> ZeroLut]
    /\ R_lut = [sq \in ModelSquares |-> ZeroLut]
    /\ Battacks = <<>>
    /\ Rattacks = <<>>
    /\ try = 0
    /\ occupancies = <<>>
    /\ attacks = <<>>
    /\ used_attacks = <<>>
    /\ use_pre_calc_magic = FALSE
    /\ returned_false = FALSE
    /\ query = NoQuery
    /\ fn = "none"
    /\ fsq \in Squares
    /\ fblockers \in {b \in SUBSET BlockerPool : Cardinality(b) <= MaxBlockers}
    /\ findex = 0
    /\ fmagic = Zero64
    /\ fresult = {}
    /\ fret = 0

CallRookAttacksOnTheFly ==
    /\ fn = "none"
    /\ fn' = "rook_attacks_on_the_fly"
    /\ fresult' = rook_attacks_on_the_fly(fsq, fblockers)
    /\ UNCHANGED <<progVars, fnArgs, fret>>

CallBishopAttacksOnTheFly ==
    /\ fn = "none"
    /\ fn' = "bishop_attacks_on_the_fly"
    /\ fresult' = bishop_attacks_on_the_fly(fsq, fblockers)
    /\ UNCHANGED <<progVars, fnArgs, fret>>

\* SHIFT_d(BIT(fsq))
CallShift ==
    /\ fn = "none"
    /\ fblockers = {}
    /\ \E d \in Directions :
           /\ fn' = d
           /\ fresult' = Shift(d, BIT(fsq))
    /\ UNCHANGED <<progVars, fnArgs, fret>>

NextFn ==
    \/ CallRookAttacksOnTheFly
    \/ CallBishopAttacksOnTheFly
    \/ CallShift

SpecFn == InitFn /\ [][NextFn]_vars

-----------------------------------------------------------------------------
(* The bit harness: one call of a bit primitive, of set_occupancy, of an
   occupancy mask or of test_magic, in every build of the HAVE_* cascade *)

\* the masks set_occupancy is called with have at most this many bits
MaxMaskBits == 4

\* the squares the bits of those masks are taken from
\* (h8 is left out: get_ls1b of bit 63 is 64 in the ffs builds, and set_occupancy
\* would shift by 64)
MaskPool == { Coord("a", 1), Coord("d", 3), Coord("e", 4), Coord("b", 6),
              Coord("g", 7), Coord("h", 7) }

\* the bitboards handed to the bit primitives: every single bit, the small masks,
\* the empty and the full board
BitInputs ==
    {BIT(s) : s \in Squares}
        \cup {m \in SUBSET MaskPool : Cardinality(m) <= MaxMaskBits}
        \cup {AllBits}

InitBits ==
    /\ build \in BuildVariants
    /\ bishop_magic_numbers = BishopMagics
    /\ rook_magic_numbers = RookMagics
    /\ pc = "harness"
    /\ sqi = 0
    /\ pawn_attacks_lut = [c \in {WHITE, BLACK} |-> [sq \in Squares |-> {}]]
    /\ king_attacks_lut = [sq \in Squares |-> {}]
    /\ knight_attacks_lut = [sq \in Squares |-> {}]
    /\ B_lut = [sq \in ModelSquares |-> ZeroLut]
    /\ R_lut = [sq \in ModelSquares |-> ZeroLut]
    /\ Battacks = <<>>
    /\ Rattacks = <<>>
    /\ try = 0
    /\ occupancies = <<>>
    /\ attacks = <<>>
    /\ used_attacks = <<>>
    /\ use_pre_calc_magic = FALSE
    /\ returned_false = FALSE
    /\ query = NoQuery
    /\ fn = "none"
    /\ \/ /\ fsq \in Squares
          /\ fblockers = {}
          /\ findex = 0
       \/ /\ fsq = 0
          /\ fblockers \in BitInputs
          /\ findex \in IF Cardinality(fblockers) <= MaxMaskBits
                         THEN 0..(Pow2(Cardinality(fblockers)) - 1)
                         ELSE {0}
    /\ fmagic = Zero64
    /\ fresult = {}
    /\ fret = 0

\* get_ls1b(fblockers)
CallGetLs1b ==
    /\ fn = "none"
    /\ findex = 0
    /\ fn' = "get_ls1b"
    /\ fret' = get_ls1b(fblockers)
    /\ UNCHANGED <<progVars, fnArgs, fresult>>

\* count_bits(fblockers)
CallCountBits ==
    /\ fn = "none"
    /\ findex = 0
    /\ fn' = "count_bits"
    /\ fret' = count_bits(fblockers)
    /\ UNCHANGED <<progVars, fnArgs, fresult>>

\* set_occupancy(findex, count_bits(fblockers), fblockers), as find_magic_number's
\* init_occupancy_indicies and the init_*_attacks loops call it
CallSetOccupancy ==
    /\ fn = "none"
    /\ fblockers \in SUBSET MaskPool
    /\ fn' = "set_occupancy"
    /\ fresult' = set_occupancy(findex, count_bits(fblockers), fblockers)
    /\ UNCHANGED <<progVars, fnArgs, fret>>

\* the first two statements of the loop of init_bishop_magic for square fsq:
\* mask = bishop_occu_mask(fsq), obits = count_bits(mask)
CallBishopOccuMask ==
    /\ fn = "none"
    /\ fblockers = {}
    /\ fn' = "bishop_occu_mask"
    /\ fresult' = bishop_occu_mask(fsq)
    /\ fret' = count_bits(bishop_occu_mask(fsq))
    /\ UNCHANGED <<progVars, fnArgs>>

\* the first two statements of the loop of init_rook_magic for square fsq
CallRookOccuMask ==
    /\ fn = "none"
    /\ fblockers = {}
    /\ fn' = "rook_occu_mask"
    /\ fresult' = rook_occu_mask(fsq)
    /\ fret' = count_bits(rook_occu_mask(fsq))
    /\ UNCHANGED <<progVars, fnArgs>>

\* the candidates test_magic is called with for the square SqList[i]: those the
\* search draws, and the magic 1
TestedMagics(i) == random_u64_fewbits(i) \cup {<<1, 0, 0, 0>>}

\* the pieces test_magic is called for in the harness (the search of main() calls
\* it for the rook as well)
TestedPieces == {BISHOP}

\* test_magic for piece findex' on fsq with the candidate fmagic', on the reference
\* tables of init_occupancy_indicies and a used_attacks that is empty throughout
CallTestMagic ==
    /\ fn = "none"
    /\ fblockers = {}
    /\ \E i \in 1..NumSq, piece \in TestedPieces :
           /\ fsq = SqList[i]
           /\ \E mask \in {IF piece = BISHOP THEN bishop_occu_mask(fsq)
                           ELSE rook_occu_mask(fsq)} :
              \E io \in {init_occupancy_indicies(fsq, count_bits(mask), piece, mask)} :
              \E magic \in TestedMagics(i) :
                  /\ findex' = piece
                  /\ fmagic' = magic
                  /\ fret' = test_magic(count_bits(mask), magic, io.occupancies,
                                        io.attacks, Fill(ScratchLen, {})).ok
    /\ fn' = "test_magic"
    /\ UNCHANGED <<progVars, fsq, fblockers, fresult>>

\* what used_attacks may hold when test_magic is called on it uncleared: garbage, or
\* what the test of an earlier candidate has left in it
StaleScratch(i, relv_bits, occ, att) ==
    {Fill(ScratchLen, AllBits)} \cup
        { test_magic(relv_bits, earlier, occ, att, Fill(ScratchLen, {})).used
            : earlier \in TestedMagics(i) }

\* test_magic for piece findex' on fsq with the candidate fmagic', on the reference
\* tables of init_occupancy_indicies and a used_attacks that was not cleared
CallTestMagicStale ==
    /\ fn = "none"
    /\ fblockers = {}
    /\ \E i \in 1..NumSq, piece \in TestedPieces :
           /\ fsq = SqList[i]
           /\ \E mask \in {IF piece = BISHOP THEN bishop_occu_mask(fsq)
                           ELSE rook_occu_mask(fsq)} :
              \E io \in {init_occupancy_indicies(fsq, count_bits(mask), piece, mask)} :
              \E used \in StaleScratch(i, count_bits(mask), io.occupancies, io.attacks) :
              \E magic \in TestedMagics(i) :
              \E t \in {test_magic(count_bits(mask), magic, io.occupancies, io.attacks,
                                   used)} :
                  /\ findex' = piece
                  /\ fmagic' = magic
                  /\ fret' = t.ok
                  /\ used_attacks' = t.used
    /\ fn' = "test_magic_stale"
    /\ UNCHANGED <<buildVars, pc, sqi, pawn_attacks_lut, king_attacks_lut,
                   knight_attacks_lut, B_lut, R_lut, Battacks, Rattacks, try,
                   occupancies, attacks, loaderVars, query, fsq, fblockers, fresult>>

\* the magics the index is computed with in the harness: 0, 1, the magics of the
\* bishop and the rook on c2, and 0xffffffffffffffff
HashedMagics == {Zero64, <<1, 0, 0, 0>>, BishopMagics[1], RookMagics[1],
                 <<65535, 65535, 65535, 65535>>}

\* the occupancies the index is computed for: the empty board, main()'s, the full one
HashedOccupancies == {{}, MainOccupancy, AllBits}

\* the index computation of get_bishop_attacks / get_rook_attacks for the piece
\* findex' on fsq, with the mask and obits init_*_magic stores for fsq:
\* occu &= mask; occu *= magic; occu >>= 64 - obits
CallMagicHashing ==
    /\ fn = "none"
    /\ fblockers = {}
    /\ \E piece \in {BISHOP, ROOK}, occu \in HashedOccupancies, magic \in HashedMagics :
       \E mask \in {IF piece = BISHOP THEN bishop_occu_mask(fsq)
                    ELSE rook_occu_mask(fsq)} :
           /\ findex' = piece
           /\ fmagic' = magic
           /\ fresult' = occu \cap mask
           /\ fret' = magic_hashing(occu \cap mask, magic, count_bits(mask))
    /\ fn' = "magic_hashing"
    /\ UNCHANGED <<progVars, fsq, fblockers>>

\* the pieces find_magic_number is called for in the harness: the bishop, and the
\* king, for which no magic exists
SearchedPieces == {BISHOP, KING}

\* find_magic_number(findex', fsq, mask, relv_bits) from its entry to the end of the
\* first pass of its loop, on a stack that holds garbage: fret' is "failed" when it
\* has returned 0 before the loop, "accepted" when it has returned the candidate
\* fmagic', "skipped" or "rejected" when the loop goes on after that candidate
CallFindMagicNumber ==
    /\ fn = "none"
    /\ fblockers = {}
    /\ \E i \in 1..NumSq, piece \in SearchedPieces, garbage \in StackGarbage :
           /\ fsq = SqList[i]
           /\ findex' = piece
           /\ \E mask \in {IF piece = ROOK THEN rook_occu_mask(fsq)
                           ELSE bishop_occu_mask(fsq)} :
              \E io \in {init_occupancy_indicies(fsq, count_bits(mask), piece, mask)} :
                  IF ~io.ok
                  THEN /\ fmagic' = Zero64
                       /\ fret' = "failed"
                       /\ used_attacks' = Fill(ScratchLen, garbage)
                  ELSE \E magic \in TestedMagics(i) :
                       \E pass \in {FindMagicPass([mask |-> mask, obits |-> count_bits(mask),
                                                   magic |-> Zero64],
                                                  magic, io.occupancies, io.attacks,
                                                  Fill(ScratchLen, garbage))} :
                           /\ fmagic' = magic
                           /\ fret' = IF pass.ok THEN "accepted"
                                      ELSE IF pass.tested THEN "rejected" ELSE "skipped"
                           /\ used_attacks' = pass.used
    /\ fn' = "find_magic_number"
    /\ UNCHANGED <<buildVars, pc, sqi, pawn_attacks_lut, king_attacks_lut,
                   knight_attacks_lut, B_lut, R_lut, Battacks, Rattacks, try,
                   occupancies, attacks, loaderVars, query, fsq, fblockers, fresult>>

NextBits ==
    \/ CallGetLs1b
    \/ CallCountBits
    \/ CallSetOccupancy
    \/ CallBishopOccuMask
    \/ CallRookOccuMask
    \/ CallTestMagic
    \/ CallTestMagicStale
    \/ CallMagicHashing
    \/ CallFindMagicNumber

SpecBits == InitBits /\ [][NextBits]_vars

-----------------------------------------------------------------------------
(* main() in a ctzll build together with the calls of the bit harness *)

InitCalls == (Init /\ build = "HAVE___BUILTIN_CTZLL") \/ InitBits

NextCalls == (pc # "harness" /\ Next) \/ (pc = "harness" /\ NextBits)

SpecCalls == InitCalls /\ [][NextCalls]_vars

-----------------------------------------------------------------------------
(* Board geometry under the a1 = 0 mapping, stated without the code's operators *)

RankOf(s) == s \div 8
FileOf(s) == s % 8

\* the <<rank step, file step>> of a direction: north is one rank up, east one file up
Delta(d) ==
    CASE d = "N" -> <<1, 0>>
      [] d = "S" -> <<-1, 0>>
      [] d = "E" -> <<0, 1>>
      [] d = "W" -> <<0, -1>>
      [] d = "NE" -> <<1, 1>>
      [] d = "NW" -> <<1, -1>>
      [] d = "SE" -> <<-1, 1>>
      [] d = "SW" -> <<-1, -1>>

\* the square n steps from s in direction d, or -1 when that is off the board
StepFrom(s, d, n) ==
    LET r == RankOf(s) + n * Delta(d)[1]
        f == FileOf(s) + n * Delta(d)[2]
    IN  IF r \in 0..7 /\ f \in 0..7 THEN r * 8 + f ELSE -1

\* the on-board neighbour of s in direction d, as a bitboard
Neighbour(s, d) == {StepFrom(s, d, 1)} \cap Squares

\* the squares of the ray from s in direction d up to and including the first
\* square set in b, or up to the board edge
RayUpToBlocker(s, d, b) ==
    { StepFrom(s, d, n) :
        n \in { k \in 1..7 : /\ StepFrom(s, d, k) # -1
                             /\ \A m \in 1..(k - 1) : StepFrom(s, d, m) \notin b } }

RookDirections == {"N", "S", "E", "W"}
BishopDirections == {"NE", "NW", "SE", "SW"}

Abs(x) == IF x < 0 THEN -x ELSE x

-----------------------------------------------------------------------------
(* Properties of the ray walks and the shift macros (specification SpecFn) *)

\* C2: on every ray of the piece the reference ray walk contains exactly the squares
\* from the first step after s up to and including the first blocker, or up to the
\* board edge; nothing beyond a blocker, nothing off the rays, never s itself; the
\* rook on e4 with blockers e2, e7, b4 and the bishop on d4 with blockers b2, f6
\* attack the sets the specification lists.
C2_RayWalkStopsAtFirstBlocker ==
    /\ fn = "rook_attacks_on_the_fly" =>
           /\ fresult = UNION {RayUpToBlocker(fsq, d, fblockers) : d \in RookDirections}
           /\ fsq \notin fresult
    /\ fn = "bishop_attacks_on_the_fly" =>
           /\ fresult = UNION {RayUpToBlocker(fsq, d, fblockers) : d \in BishopDirections}
           /\ fsq \notin fresult
    /\ ( /\ fn = "rook_attacks_on_the_fly"
         /\ fsq = Coord("e", 4)
         /\ fblockers = {Coord("e", 2), Coord("e", 7), Coord("b", 4)} ) =>
           fresult = { Coord("e", 2), Coord("e", 3), Coord("e", 5), Coord("e", 6),
                       Coord("e", 7), Coord("b", 4), Coord("c", 4), Coord("d", 4),
                       Coord("f", 4), Coord("g", 4), Coord("h", 4) }
    /\ ( /\ fn = "bishop_attacks_on_the_fly"
         /\ fsq = Coord("d", 4)
         /\ fblockers = {Coord("b", 2), Coord("f", 6)} ) =>
           fresult = { Coord("c", 3), Coord("b", 2), Coord("e", 3), Coord("f", 2),
                       Coord("g", 1), Coord("c", 5), Coord("b", 6), Coord("a", 7),
                       Coord("e", 5), Coord("f", 6) }

\* the rook walk of the example has run: it stopped on e7 and on b4
C2_Witness ==
    /\ fn = "rook_attacks_on_the_fly"
    /\ fsq = Coord("e", 4)
    /\ fblockers = {Coord("e", 2), Coord("e", 7), Coord("b", 4)}
    /\ Coord("e", 7) \in fresult
    /\ Coord("e", 8) \notin fresult
    /\ Coord("a", 4) \notin fresult

\* C5: on the empty board the rook walk from s yields the file and the rank of s
\* without s, 14 squares, and the bishop walk the two diagonals through s without s.
C5_EmptyBoardReachesEdges ==
    fblockers = {} =>
        /\ fn = "rook_attacks_on_the_fly" =>
               /\ fresult = {t \in Squares : /\ t # fsq
                                             /\ \/ RankOf(t) = RankOf(fsq)
                                                \/ FileOf(t) = FileOf(fsq)}
               /\ Cardinality(fresult) = 14
        /\ fn = "bishop_attacks_on_the_fly" =>
               fresult = {t \in Squares : /\ t # fsq
                                          /\ Abs(RankOf(t) - RankOf(fsq)) =
                                             Abs(FileOf(t) - FileOf(fsq))}

\* the bishop walk from a1 on the empty board has run to the far corner h8
C5_Witness ==
    /\ fn = "bishop_attacks_on_the_fly"
    /\ fblockers = {}
    /\ fsq = A1
    /\ H8 \in fresult

\* C6 as the specification states it: the rook on e4 with no blockers attacks
\* exactly 0x0010_1010_EF10_1010, a value of popcount 14.
C6_AsStated ==
    (fn = "rook_attacks_on_the_fly" /\ fsq = E4 /\ fblockers = {}) =>
        /\ fresult = U64Bits(<<4112, 61200, 4112, 16>>)
        /\ Cardinality(U64Bits(<<4112, 61200, 4112, 16>>)) = 14

\* C6: the rook on e4 with no blockers attacks exactly 0x1010_1010_EF10_1010 (e8,
\* bit 60, included), a value of popcount 14.
C6_RookE4EmptyBoard ==
    (fn = "rook_attacks_on_the_fly" /\ fsq = E4 /\ fblockers = {}) =>
        /\ fresult = U64Bits(<<4112, 61200, 4112, 4112>>)
        /\ Cardinality(fresult) = 14

\* the rook walk from e4 on the empty board has run and reached e8
C6_Witness ==
    /\ fn = "rook_attacks_on_the_fly"
    /\ fsq = E4
    /\ fblockers = {}
    /\ Coord("e", 8) \in fresult

\* C10: every shift macro applied to BIT(s) yields the empty board or exactly the
\* on-board neighbour of s in the named direction; no bit wraps to the opposite file.
C10_ShiftYieldsNeighbour ==
    fn \in Directions =>
        \/ fresult = {}
        \/ /\ Neighbour(fsq, fn) # {}
           /\ fresult = Neighbour(fsq, fn)

-----------------------------------------------------------------------------
(* Properties of the tables (specification Spec) *)

\* the position p of main() is behind the program
Past(p) == Pos(pc) > Pos(p)

\* C7: after init_pawn_attacks the white entry of every square is its NW and NE
\* neighbours and the black entry its SW and SE neighbours, on board only; the white
\* pawn on e4 attacks {d5, f5}; on files a and h at most one square is attacked.
C7_PawnAttacks ==
    Past("init_pawn_attacks") =>
        /\ \A s \in Squares :
               /\ pawn_attacks_lut[WHITE][s] = Neighbour(s, "NW") \cup Neighbour(s, "NE")
               /\ pawn_attacks_lut[BLACK][s] = Neighbour(s, "SW") \cup Neighbour(s, "SE")
               /\ FileOf(s) \in {A_FILE, H_FILE} =>
                      /\ Cardinality(pawn_attacks_lut[WHITE][s]) <= 1
                      /\ Cardinality(pawn_attacks_lut[BLACK][s]) <= 1
        /\ pawn_attacks_lut[WHITE][E4] = {Coord("d", 5), Coord("f", 5)}

\* the squares adjacent to s
Adjacent(s) == UNION {Neighbour(s, d) : d \in Directions}

\* C8: after init_king_attacks the entry of every square is the set of its on-board
\* adjacent squares: 3 squares in a corner, 5 on another edge square, 8 inside.
C8_KingAttacks ==
    Past("init_king_attacks") =>
        \A s \in Squares :
            /\ king_attacks_lut[s] = Adjacent(s)
            /\ Cardinality(king_attacks_lut[s]) =
                   IF RankOf(s) \in {0, 7} /\ FileOf(s) \in {0, 7} THEN 3
                   ELSE IF RankOf(s) \in {0, 7} \/ FileOf(s) \in {0, 7} THEN 5
                   ELSE 8

\* the on-board squares at an L-shaped offset from s
KnightPattern(s) ==
    {t \in Squares : <<Abs(FileOf(t) - FileOf(s)), Abs(RankOf(t) - RankOf(s))>>
                         \in {<<1, 2>>, <<2, 1>>}}

\* the popcounts of table[s], table[s + 1], ..., table[H8] added up
RECURSIVE PopcountFrom(_, _)
PopcountFrom(table, s) ==
    IF s > H8 THEN 0 ELSE Cardinality(table[s]) + PopcountFrom(table, s + 1)

C3_QueenIsRookOrBishop ==
    query.kind = "queen" =>
        query.result = get_rook_attacks(query.sq, query.occu) \cup
                       get_bishop_attacks(query.sq, query.occu)

\* main()'s first query has been answered, with squares from both lookups
C3_Witness ==
    /\ query.kind = "queen"
    /\ query.sq = C2
    /\ query.occu = MainOccupancy
    /\ get_rook_attacks(C2, MainOccupancy) \ get_bishop_attacks(C2, MainOccupancy) # {}
    /\ get_bishop_attacks(C2, MainOccupancy) \ get_rook_attacks(C2, MainOccupancy) # {}

\* C4: the answer of a bishop or rook lookup for an occupancy o is the answer for
\* o restricted to the relevant-occupancy mask of the square.
C4_LookupIgnoresBitsOutsideMask ==
    /\ query.kind = "bishop" =>
           query.result = get_bishop_attacks(query.sq, query.occu \cap B_lut[query.sq].mask)
    /\ query.kind = "rook" =>
           query.result = get_rook_attacks(query.sq, query.occu \cap R_lut[query.sq].mask)

\* a bishop query has been answered whose occupancy has bits inside and outside
\* the mask
C4_Witness ==
    /\ query.kind = "bishop"
    /\ query.occu \cap B_lut[query.sq].mask # {}
    /\ query.occu \ B_lut[query.sq].mask # {}
    /\ query.result # {}

\* C1: once the magics are found and the tables populated, for every modelled square
\* and every subset o of its mask the bishop lookup and the rook table entry at the
\* hashed index equal the reference ray walk.
C1_TablesAgreeWithRayWalk ==
    pc = "ready" =>
        \A s \in ModelSquares :
            /\ \A o \in SUBSET B_lut[s].mask :
                   get_bishop_attacks(s, o) = bishop_attacks_on_the_fly(s, o)
            /\ \A o \in SUBSET R_lut[s].mask :
                   Rattacks[s][magic_hashing(o, R_lut[s].magic, R_lut[s].obits) + 1] =
                       rook_attacks_on_the_fly(s, o)

-----------------------------------------------------------------------------
(* Claims about the bit primitives *)

\* C11: in every build, get_ls1b of the bitboard with the single bit s returns s and
\* count_bits of it returns 1
C11_SingleBitIndexAndCount ==
    \A s \in Squares :
        fblockers = BIT(s) =>
            /\ fn = "get_ls1b" => fret = s
            /\ fn = "count_bits" => fret = 1

\* the j-th set bit of m, counted from the least significant set bit
JthBit(m, j) == CHOOSE b \in m : Cardinality({x \in m : x < b}) = j

\* C12: set_occupancy(i, k, m) is the subset of m that has the j-th set bit of m iff
\* bit j of i is set, and i -> set_occupancy(i, k, m) maps 0 .. 2^k - 1 one to one
\* onto the subsets of m
C12_SetOccupancyEnumeratesSubsets ==
    fn = "set_occupancy" =>
        LET m == fblockers
            k == Cardinality(m)
            image == {set_occupancy(i, k, m) : i \in 0..(Pow2(k) - 1)}
        IN  /\ fresult = {JthBit(m, j) : j \in {x \in 0..(k - 1) : IndexBit(findex, x)}}
            /\ image = SUBSET m
            /\ Cardinality(image) = Pow2(k)

-----------------------------------------------------------------------------
(* Claims about the occupancy masks *)

\* C13: for every square the number of relevant bits init_bishop_magic computes is in
\* 5..9 and the one init_rook_magic computes is in 10..12; a rook on a1 has 12 and a
\* bishop on a1 has 6
C13_RelevantBitsRanges ==
    /\ fn = "bishop_occu_mask" => fret \in 5..9 /\ (fsq = A1 => fret = 6)
    /\ fn = "rook_occu_mask" => fret \in 10..12 /\ (fsq = A1 => fret = 12)

C13_Witness ==
    \/ fn = "rook_occu_mask" /\ fsq = A1 /\ fret = 12 /\ build = "PORTABLE"
    \/ fn = "bishop_occu_mask" /\ fsq = E4 /\ fret = 9 /\ build = "HAVE_FFSLL"

\* the last on-board square of the ray from s in direction d, as a bitboard
RayEnd(s, d) ==
    { StepFrom(s, d, n) :
        n \in { k \in 1..7 : StepFrom(s, d, k) # -1 /\ StepFrom(s, d, k + 1) = -1 } }

RayEnds(s, dirs) == UNION { RayEnd(s, d) : d \in dirs }

\* C14: the occupancy mask of a slider on s is a subset of its attack set on the
\* empty board, does not contain s, and the attacked squares missing from the mask
\* are exactly the last square of every non-empty ray
C14_MaskIsEmptyBoardAttacksLessRayEnds ==
    /\ fn = "rook_occu_mask" =>
           /\ fresult \subseteq rook_attacks_on_the_fly(fsq, {})
           /\ rook_attacks_on_the_fly(fsq, {}) \ fresult = RayEnds(fsq, RookDirections)
           /\ fsq \notin fresult
    /\ fn = "bishop_occu_mask" =>
           /\ fresult \subseteq bishop_attacks_on_the_fly(fsq, {})
           /\ bishop_attacks_on_the_fly(fsq, {}) \ fresult = RayEnds(fsq, BishopDirections)
           /\ fsq \notin fresult

C14_Witness ==
    \/ /\ fn = "rook_occu_mask" /\ fsq = A1
       /\ rook_attacks_on_the_fly(fsq, {}) \ fresult = {Coord("a", 8), Coord("h", 1)}
    \/ /\ fn = "bishop_occu_mask" /\ fsq = Coord("c", 1)
       /\ bishop_attacks_on_the_fly(fsq, {}) \ fresult = {Coord("a", 3), Coord("h", 6)}

-----------------------------------------------------------------------------
(* Claims about the magic search *)

\* the occupancies init_occupancy_indicies enumerates for the entry lut of a square
EnumeratedOccupancies(lut) ==
    {set_occupancy(i, lut.obits, lut.mask) : i \in 0..(Pow2(lut.obits) - 1)}

\* the <<index, attack set>> pairs of the enumerated occupancies
IndexedAttacks(piece, sq, lut) ==
    { <<magic_hashing(o, lut.magic, lut.obits), OnTheFly(piece, sq, o)>> :
        o \in EnumeratedOccupancies(lut) }

\* no two distinct enumerated occupancies share an index
HashInjective(lut) ==
    \E occ \in {EnumeratedOccupancies(lut)} :
        Cardinality({magic_hashing(o, lut.magic, lut.obits) : o \in occ})
            = Cardinality(occ)

\* no two enumerated occupancies with different attack sets share an index
NoDestructiveCollision(piece, sq, lut) ==
    \E ia \in {IndexedAttacks(piece, sq, lut)} :
        Cardinality(ia) = Cardinality({p[1] : p \in ia})

\* the step in which find_magic_number returns a magic for the square of this pass
MagicFound ==
    /\ pc \in {"find_magic_number_bishop", "find_magic_number_rook"}
    /\ pc' # pc
    /\ IF pc = "find_magic_number_bishop"
       THEN B_lut'[SqList[sqi]].magic # Zero64
       ELSE R_lut'[SqList[sqi]].magic # Zero64

\* C15 as the specification states it: a magic returned by find_magic_number maps
\* no two distinct enumerated occupancies to the same index
C15_AsStated ==
    [][MagicFound =>
           IF pc = "find_magic_number_bishop"
           THEN HashInjective(B_lut'[SqList[sqi]])
           ELSE HashInjective(R_lut'[SqList[sqi]])]_vars

\* C15: a magic returned by find_magic_number maps no two enumerated occupancies
\* with different reference attack sets to the same index
C15_ReturnedMagicHasNoDestructiveCollision ==
    [][MagicFound =>
           IF pc = "find_magic_number_bishop"
           THEN NoDestructiveCollision(BISHOP, SqList[sqi], B_lut'[SqList[sqi]])
           ELSE NoDestructiveCollision(ROOK, SqList[sqi], R_lut'[SqList[sqi]])]_vars

\* in a ctzll build find_magic_number has returned, for the bishop on c2, a magic
\* under which occupancies of equal attack sets share a slot
C15_Witness ==
    /\ build = "HAVE___BUILTIN_CTZLL"
    /\ pc = "init_rook_magic"
    /\ ~returned_false
    /\ B_lut[C2].magic = OtherMagics[1]
    /\ ~HashInjective(B_lut[C2])
    /\ NoDestructiveCollision(BISHOP, C2, B_lut[C2])

-----------------------------------------------------------------------------
(* Claims about the loader and main() *)

C18_NoQueryAfterFailedInit ==
    returned_false => pc # "answered"

\* the part of main() a position belongs to: 1 the leaper tables, 2 the masks and
\* magic numbers, 3 the slider attack tables, 4 the queries
Phase(p) ==
    IF Pos(p) <= Pos("init_king_attacks") THEN 1
    ELSE IF Pos(p) <= Pos("find_magic_number_rook") THEN 2
    ELSE IF Pos(p) <= Pos("init_rook_attacks") THEN 3
    ELSE 4

-----------------------------------------------------------------------------
(* Claims about test_magic *)

\* the entry of the magic table the call of test_magic in the harness stands for
TestedLut ==
    LET mask == IF findex = BISHOP THEN bishop_occu_mask(fsq) ELSE rook_occu_mask(fsq)
    IN  [mask |-> mask, obits |-> count_bits(mask), magic |-> fmagic]

\* C20: called with used_attacks empty, test_magic returns true exactly when no two
\* enumerated occupancies with different reference attack sets have the same index;
\* occupancies with equal attack sets that share an index do not make it return false
C20_TestMagicRejectsDestructiveCollisionsOnly ==
    fn = "test_magic" =>
        \E lut \in {TestedLut} :
            fret = NoDestructiveCollision(findex, fsq, lut)

\* test_magic has returned true for a magic under which the hash is not injective
C20_Witness ==
    /\ fn = "test_magic"
    /\ build = "HAVE___BUILTIN_CTZLL"
    /\ findex = BISHOP
    /\ fsq = C2
    /\ fmagic = OtherMagics[1]
    /\ fret = TRUE
    /\ ~HashInjective(TestedLut)

-----------------------------------------------------------------------------
(* Claims about the scratch array and the loop of find_magic_number *)

\* the entry of the magic table the running search works for
SearchLut ==
    IF pc = "find_magic_number_bishop" THEN B_lut[SqList[sqi]] ELSE R_lut[SqList[sqi]]

\* C21: whenever find_magic_number is about to test a candidate, the entries
\* used_attacks[0 .. 2^relv_bits) are all 0 once init_used_attacks has run, so the
\* test starts from an empty array
C21_UsedAttacksEmptyAtEachTest ==
    pc \in {"find_magic_number_bishop", "find_magic_number_rook"} =>
        \E used \in {init_used_attacks(used_attacks)} :
            \A idx \in 0..(Pow2(SearchLut.obits) - 1) : used[idx + 1] = {}

\* the retry ceiling of the magic search, 2^28 candidates for one piece and square
magic_retry_ceiling == Pow2(28)

\* C22: find_magic_number draws at most magic_retry_ceiling candidates for one piece
\* and square: whenever it is about to draw one, try, the number of that candidate,
\* is at most the ceiling
C22_AtMostRetryCeilingCandidates ==
    pc \in {"find_magic_number_bishop", "find_magic_number_rook"} =>
        try <= magic_retry_ceiling

-----------------------------------------------------------------------------
(* Claims about the build variants of the bit primitives *)

\* C23: the branches of get_ls1b return the same value for every bitboard, whichever
\* the build compiled, and brain_kernighan_algo returns the number of set bits
C23_BitPrimitiveVariantsAgree ==
    /\ fn = "get_ls1b" =>
           \A b \in BuildVariants : get_ls1b_in(b, fblockers) = fret
    /\ fn = "count_bits" =>
           /\ brain_kernighan_algo(fblockers) = Cardinality(fblockers)
           /\ \A b \in BuildVariants : count_bits_in(b, fblockers) = fret

-----------------------------------------------------------------------------
(* Claims about the ray walk as a function of the blockers *)

\* C24: the ray walk of a square gives the same attack set for a blocker bitboard and
\* for that bitboard restricted to the occupancy mask of the square: blockers on the
\* square itself, on the last square of a ray or off the rays change nothing
C24_RayWalkReadsMaskedBlockersOnly ==
    /\ fn = "rook_attacks_on_the_fly" =>
           fresult = rook_attacks_on_the_fly(fsq, fblockers \cap rook_occu_mask(fsq))
    /\ fn = "bishop_attacks_on_the_fly" =>
           fresult = bishop_attacks_on_the_fly(fsq, fblockers \cap bishop_occu_mask(fsq))

\* the rook walk from a4 with blockers on a1, the last square of the South ray, on
\* e4 inside the mask and on h8 off the rays
C24_Witness ==
    /\ fn = "rook_attacks_on_the_fly"
    /\ fsq = Coord("a", 4)
    /\ fblockers = {A1, E4, H8}
    /\ fblockers \cap rook_occu_mask(fsq) = {E4}
    /\ fresult # rook_attacks_on_the_fly(fsq, {})
    /\ A1 \in fresult

-----------------------------------------------------------------------------
(* Claims about one call of find_magic_number *)

\* the number of bits the product of the mask and the candidate has in its high byte,
\* 0xFF00000000000000
HighByteBits == Cardinality(U64Bits(Mul64(TestedLut.mask, fmagic)) \cap 56..63)

\* C25: a candidate reaches test_magic only if the product of the mask and the
\* candidate has at least 6 bits in its high byte; a candidate with fewer is skipped,
\* and used_attacks is left as it was
C25_QuickRejectGuardsTest ==
    (fn = "find_magic_number" /\ fret # "failed") =>
        \E high \in {HighByteBits} :
            /\ fret \in {"rejected", "accepted"} => high >= 6
            /\ high < 6 => /\ fret = "skipped"
                           /\ \E garbage \in StackGarbage :
                                  used_attacks = Fill(ScratchLen, garbage)

\* the magic found for the rook on c2 is drawn for the bishop on c2: its product with
\* the bishop's mask has bits in the high byte, but fewer than 6, and it is skipped
\* before used_attacks, which holds garbage, is cleared
C25_Witness ==
    /\ fn = "find_magic_number"
    /\ findex = BISHOP
    /\ fsq = C2
    /\ fmagic = RookMagics[1]
    /\ fret = "skipped"
    /\ HighByteBits \in 1..5
    /\ used_attacks = Fill(ScratchLen, AllBits)

\* C26: when test_magic returns true on a used_attacks that was not cleared, no two
\* enumerated occupancies with different reference attack sets have the same index
C26_TestMagicSoundOnStaleScratch ==
    (fn = "test_magic_stale" /\ fret = TRUE) =>
        \E lut \in {TestedLut} : NoDestructiveCollision(findex, fsq, lut)

\* test_magic has returned true for the magic of the bishop on c2 on an array that
\* held, in the slot of the empty occupancy, the attack set of an earlier test
C26_Witness ==
    /\ fn = "test_magic_stale"
    /\ findex = BISHOP
    /\ fsq = C2
    /\ fmagic = BishopMagics[1]
    /\ fret = TRUE
    /\ used_attacks[1] = bishop_attacks_on_the_fly(C2, {})

-----------------------------------------------------------------------------
(* Claims about the index of the attack tables *)

\* the second dimension of the attack table of a piece
TableLen(piece) == IF piece = BISHOP THEN BattacksLen ELSE RattacksLen

\* C27: for every square, occupancy and magic the index computed for a piece is below
\* 2^obits, 2^obits is at most the second dimension of the piece's attack table and
\* the length of the scratch arrays of find_magic_number, and the shift 64 - obits is
\* in 52..59
C27_IndexWithinTables ==
    fn = "magic_hashing" =>
        \E obits \in {TestedLut.obits} :
            /\ fret \in 0..(Pow2(obits) - 1)
            /\ Pow2(obits) <= TableLen(findex)
            /\ Pow2(obits) <= ScratchLen
            /\ 64 - obits \in 52..59

\* the rook on a1, whose mask has 12 bits, with every mask square occupied and the
\* magic 0xffffffffffffffff: the index has its top bit set and is below 4096
C27_Witness ==
    /\ fn = "magic_hashing"
    /\ findex = ROOK
    /\ fsq = A1
    /\ fresult = rook_occu_mask(A1)
    /\ fmagic = <<65535, 65535, 65535, 65535>>
    /\ 64 - TestedLut.obits = 52
    /\ fret \in 2048..4095

\* C28: the ray walk of a rook or a bishop never returns the empty bitboard, whatever
\* the square and the blockers
C28_RayWalkNeverEmpty ==
    fn \in {"rook_attacks_on_the_fly", "bishop_attacks_on_the_fly"} => fresult # {}

\* the smallest attack set there is: the bishop in the corner a1 with a blocker on
\* b2 attacks b2 alone
C28_Witness ==
    /\ fn = "bishop_attacks_on_the_fly"
    /\ fsq = A1
    /\ B2 \in fblockers
    /\ fresult = {B2}

-----------------------------------------------------------------------------
(* Claims about the failure value of the magic search *)

\* C29: find_magic_number returns 0 for a failure only. A call for a piece that is no
\* slider returns 0 before any candidate is drawn, and a call for a slider gets to its
\* candidates; the candidate 0 is skipped and never returned. init_bishop_magic and
\* init_rook_magic return true only when no square of theirs has the magic 0, and
\* when the search has made one of them return false, a square of its has magic 0.
C29_ZeroSignalsFailure ==
    /\ fn = "find_magic_number" =>
           /\ fret = "failed" <=> findex \notin {BISHOP, ROOK}
           /\ fret = "failed" => \E garbage \in StackGarbage :
                                     used_attacks = Fill(ScratchLen, garbage)
           /\ fret = "accepted" => fmagic # Zero64
           /\ (fret # "failed" /\ fmagic = Zero64) => fret = "skipped"
    /\ (pc \in {"init_rook_magic", "find_magic_number_rook"} /\ ~returned_false) =>
           \A sq \in ModelSquares : B_lut[sq].magic # Zero64
    /\ (pc \in {"init_bishop_attacks", "init_rook_attacks", "ready", "answered"}
            /\ ~returned_false) =>
           \A sq \in ModelSquares : R_lut[sq].magic # Zero64
    /\ (pc = "init_bishop_magic" /\ use_pre_calc_magic /\ sqi = 1) =>
           \E sq \in ModelSquares : B_lut[sq].magic = Zero64
    /\ (pc = "init_rook_magic" /\ use_pre_calc_magic /\ sqi = 1) =>
           \E sq \in ModelSquares : R_lut[sq].magic = Zero64

\* find_magic_number, called for the king on a stack holding garbage, has returned 0
\* without a candidate and without a write to used_attacks
C29_Witness ==
    /\ fn = "find_magic_number"
    /\ findex = KING
    /\ fret = "failed"
    /\ fmagic = Zero64
    /\ used_attacks = Fill(ScratchLen, AllBits)

\* C30: the ray walk is antitone in the blockers: with any of the blockers taken
\* away the attack set is the same or larger; with all of them taken away it is the
\* attack set of the empty board, which holds every other
C30_RayWalkAntitone ==
    /\ fn = "rook_attacks_on_the_fly" =>
           \A b \in SUBSET fblockers : fresult \subseteq rook_attacks_on_the_fly(fsq, b)
    /\ fn = "bishop_attacks_on_the_fly" =>
           \A b \in SUBSET fblockers : fresult \subseteq bishop_attacks_on_the_fly(fsq, b)

\* the bishop on d4 with blockers on b2 and f6, on two of its rays: each of them
\* alone leaves strictly more squares attacked
C30_Witness ==
    /\ fn = "bishop_attacks_on_the_fly"
    /\ fsq = D4
    /\ fblockers = {B2, Coord("f", 6)}
    /\ fresult # bishop_attacks_on_the_fly(D4, {B2})
    /\ fresult # bishop_attacks_on_the_fly(D4, {Coord("f", 6)})
    /\ bishop_attacks_on_the_fly(D4, {B2}) # bishop_attacks_on_the_fly(D4, {})

====
